---- MODULE Spec2Model ----
(***************************************************************************)
(* Model of the shuttle board server: the TripShot commute-plan parser     *)
(* (parseTripShotCommutePlanForOrigin) and the GET /api/shuttle handler.    *)
(* The repository holds two editions of the server, src/server.js (header  *)
(* "server.js v14") and src/unnamed/part_000 (header "server.js v15"); the  *)
(* variable ver says which edition is running.                              *)
(*                                                                         *)
(* JavaScript values are tagged records, strings are tuples of one-letter   *)
(* strings, instants are milliseconds counted from 00:00 UTC of the day of  *)
(* the request.                                                             *)
(***************************************************************************)
EXTENDS Integers, Sequences, FiniteSets, TLC

VARIABLES
    ver,        \* edition of the server that is running: "v14" or "v15"
    pc,         \* position of the GET /api/shuttle handler
    fetchSt,    \* per origin: state of the upstream fetch promise
    jsonSt,     \* per origin: state of the response.json() promise
    data,       \* per origin: the parsed upstream document (dataEC, data120)
    now,        \* clock reading of the synchronous block that normalizes
    tz,         \* UTC offset of the server process's local time zone, ms
    buckets,    \* per origin: the colour arrays as pushed, before the sort
    parsed,     \* per origin: what parseTripShotCommutePlanForOrigin returned
    response    \* what the client was sent: status and body

vars == <<ver, pc, fetchSt, jsonSt, data, now, tz, buckets, parsed, response>>

-----------------------------------------------------------------------------
(* JavaScript values *)

Undefined == [t |-> "undefined"]
Null == [t |-> "null"]
Str(s) == [t |-> "string", s |-> s]
Num(n) == [t |-> "number", n |-> n]
Obj(f) == [t |-> "object", f |-> f]
Arr(a) == [t |-> "array", a |-> a]
\* an ISO-8601 timestamp string: a wall-clock reading with its UTC offset
Iso(wall, off) == [t |-> "isostring", wall |-> wall, off |-> off]

\* ToBoolean
Truthy(v) ==
    CASE v.t = "undefined" -> FALSE
      [] v.t = "null" -> FALSE
      [] v.t = "string" -> v.s # <<>>
      [] v.t = "number" -> v.n # 0
      [] OTHER -> TRUE

\* a || b
Or(a, b) == IF Truthy(a) THEN a ELSE b

\* typeof v === "object"
TypeofObject(v) == v.t \in {"object", "array", "null"}

\* v[k] for a named property k; reading a property of null or undefined
\* raises a TypeError, which GetThrows reports
Get(v, k) ==
    IF v.t = "object" /\ k \in DOMAIN v.f THEN v.f[k] ELSE Undefined

GetThrows(v) == v.t \in {"null", "undefined"}

\* for (const x of v): the elements visited; a string yields its letters
Elements(v) ==
    CASE v.t = "array" -> v.a
      [] v.t = "string" -> [i \in 1..Len(v.s) |-> Str(<<v.s[i]>>)]
      [] OTHER -> <<>>

\* for (const x of v) raises a TypeError when v is not iterable
IterateThrows(v) == v.t \notin {"array", "string", "isostring"}

\* new Date(v).getTime() of an ISO-8601 timestamp string
DateParse(v) == v.wall - v.off

-----------------------------------------------------------------------------
(* Strings *)

UpperAlphabet == <<"A", "B", "C", "D", "E", "F", "G", "H", "I", "J", "K", "L", "M", "N", "O", "P", "Q", "R", "S", "T", "U", "V", "W", "X", "Y", "Z">>
LowerAlphabet == <<"a", "b", "c", "d", "e", "f", "g", "h", "i", "j", "k", "l", "m", "n", "o", "p", "q", "r", "s", "t", "u", "v", "w", "x", "y", "z">>

\* the letter tables of toLowerCase and toUpperCase
LowerTable ==
    [c \in {UpperAlphabet[i] : i \in 1..Len(UpperAlphabet)} |->
        LowerAlphabet[CHOOSE i \in 1..Len(UpperAlphabet) : UpperAlphabet[i] = c]]

UpperTable ==
    [c \in {LowerAlphabet[i] : i \in 1..Len(LowerAlphabet)} |->
        UpperAlphabet[CHOOSE i \in 1..Len(LowerAlphabet) : LowerAlphabet[i] = c]]

LowerChar(c) == IF c \in DOMAIN LowerTable THEN LowerTable[c] ELSE c

UpperChar(c) == IF c \in DOMAIN UpperTable THEN UpperTable[c] ELSE c

\* s.toLowerCase()
toLowerCase(s) == [i \in 1..Len(s) |-> LowerChar(s[i])]

\* s.toUpperCase()
toUpperCase(s) == [i \in 1..Len(s) |-> UpperChar(s[i])]

\* s.includes(sub)
includes(s, sub) ==
    \E i \in 0..(Len(s) - Len(sub)) :
        \A j \in 1..Len(sub) : s[i + j] = sub[j]

\* /pat/i.test(v): v is converted to a string first; the conversion of a
\* value that is no string never holds a colour word
RegexTestI(pat, v) == v.t = "string" /\ includes(toLowerCase(v.s), pat)

-----------------------------------------------------------------------------
(* CONFIG *)

EC_S_STOP_ID == <<"E", "C", "0", "0", "C", "C", "C", "F", "-", "1", "5", "9", "9", "-", "4", "5", "4", "B", "-", "A", "9", "0", "A", "-", "0", "5", "F", "7", "F", "A", "D", "0", "6", "5", "7", "6">>
S120_STOP_ID == <<"d", "b", "0", "2", "3", "6", "e", "f", "-", "f", "b", "f", "a", "-", "4", "2", "5", "4", "-", "a", "e", "3", "0", "-", "e", "a", "5", "7", "d", "e", "e", "2", "0", "a", "0", "0">>
NINETY_SIX_STOP_ID == <<"A", "5", "C", "9", "7", "7", "0", "5", "-", "8", "2", "1", "7", "-", "4", "D", "8", "2", "-", "A", "7", "7", "8", "-", "0", "1", "D", "A", "A", "1", "2", "3", "2", "2", "A", "6">>

\* the two origins of the handler, by the key of the served body
Origins == {"ecS", "s120"}
OriginStopId(o) == IF o = "ecS" THEN EC_S_STOP_ID ELSE S120_STOP_ID
OriginLabel(o) == IF o = "ecS" THEN <<"E", "C", " ", "S">> ELSE <<"1", "2", "0", " ", "S">>

Editions == {"v14", "v15"}

-----------------------------------------------------------------------------
(* Time *)

\* UTC offset of America/New_York on the day of the request (standard time)
NYC_UTC_OFFSET == 0 - (5 * 60 * 60000)

\* getNYCTime().getTime(): the clock reading is formatted as New York wall
\* time to the second (toLocaleString) and that text is parsed back as a
\* time of the server's own zone (new Date(text))
getNYCTime(nowMs, tzOff) ==
    LET wall == nowMs + NYC_UTC_OFFSET
        text == wall - (wall % 1000)
    IN  text - tzOff

Max(a, b) == IF a >= b THEN a ELSE b
Min(a, b) == IF a <= b THEN a ELSE b

\* Math.max(0, Math.round((target - now) / 60000)); Math.round rounds a
\* half towards plus infinity
minutesFromNow(iso, nowMs) ==
    LET diffMs == DateParse(iso) - nowMs
    IN  Max(0, (2 * diffMs + 60000) \div (2 * 60000))

DigitChar(d) == <<"0", "1", "2", "3", "4", "5", "6", "7", "8", "9">>[d + 1]

\* String(n) of 0 <= n <= 99
DigitsOf(n) ==
    IF n >= 10 THEN <<DigitChar(n \div 10), DigitChar(n % 10)>>
    ELSE <<DigitChar(n)>>

\* `${h}:${mm} ${suffix}` of the server's local time of day
formatTime(iso, tzOff) ==
    LET local == DateParse(iso) + tzOff
        h24 == (local \div (60 * 60000)) % 24
        m == (local \div 60000) % 60
        suffix == IF h24 >= 12 THEN <<"p", "m">> ELSE <<"a", "m">>
        h == ((h24 + 11) % 12) + 1
        mm == IF m < 10 THEN <<"0">> \o DigitsOf(m) ELSE DigitsOf(m)
    IN  DigitsOf(h) \o <<":">> \o mm \o <<" ">> \o suffix

\* filterTripsAfterNYCNow(trips): v15 only
filterTripsAfterNYCNow(trips, nowMs, tzOff) ==
    SelectSeq(trips, LAMBDA e :
        Truthy(e.rawISO) /\ DateParse(e.rawISO) >= getNYCTime(nowMs, tzOff))

-----------------------------------------------------------------------------
(* TripShot PARSER: the route directory *)

GREEN == <<"g", "r", "e", "e", "n">>
RED == <<"r", "e", "d">>
BLUE == <<"b", "l", "u", "e">>
SHUTTLE == <<"S", "h", "u", "t", "t", "l", "e">>

\* the name of a colour bucket as a JavaScript string
KeyString(key) ==
    CASE key = "green" -> GREEN
      [] key = "red" -> RED
      [] key = "blue" -> BLUE

\* colorLabel.toLowerCase() as a bucket key; unknown text is kept as "other"
KeyOfString(s) ==
    CASE s = GREEN -> "green"
      [] s = RED -> "red"
      [] s = BLUE -> "blue"
      [] OTHER -> "other"

\* the colorLabel of the route directory: first of green, red, blue found in
\* the name or the short name, whatever the letter case
inferColorLabel(name, shortName) ==
    IF RegexTestI(GREEN, name) \/ RegexTestI(GREEN, shortName)
    THEN <<"G", "r", "e", "e", "n">>
    ELSE IF RegexTestI(RED, name) \/ RegexTestI(RED, shortName)
    THEN <<"R", "e", "d">>
    ELSE IF RegexTestI(BLUE, name) \/ RegexTestI(BLUE, shortName)
    THEN <<"B", "l", "u", "e">>
    ELSE <<>>

\* the record the loop over routes stores for r
RouteInfo(r) ==
    LET name == Or(Or(Get(r, "name"), Get(r, "shortName")), Str(SHUTTLE))
        shortName == Or(Get(r, "shortName"), name)
    IN  [id |-> Get(r, "routeId"), name |-> name, shortName |-> shortName,
         colorLabel |-> inferColorLabel(name, shortName)]

\* the property key a value is used as (route identifiers are strings, or
\* absent, in the documents of this model)
PropertyKey(v) ==
    IF v.t = "string" THEN v.s
    ELSE <<"u", "n", "d", "e", "f", "i", "n", "e", "d">>

\* one turn of the loop over routes: a route without identifier is skipped,
\* a later route replaces an earlier one of the same identifier
AddRoute(dir, r) ==
    LET id == Get(r, "routeId")
    IN  IF ~Truthy(id) THEN dir
        ELSE [k \in (DOMAIN dir) \cup {PropertyKey(id)} |->
                 IF k = PropertyKey(id) THEN RouteInfo(r) ELSE dir[k]]

RECURSIVE routeInfoByIdFrom(_, _, _)
routeInfoByIdFrom(routes, i, dir) ==
    IF i > Len(routes) THEN dir
    ELSE routeInfoByIdFrom(routes, i + 1, AddRoute(dir, routes[i]))

\* routeInfoById after the loop over json.routes || []
routeInfoById(json) ==
    routeInfoByIdFrom(Elements(Or(Get(json, "routes"), Arr(<<>>))), 1, <<>>)

\* routeInfoById[ride.routeId] || routeInfoById[ride.routeServiceId] || {...}
resolveRouteInfo(dir, ride) ==
    LET k1 == PropertyKey(Get(ride, "routeId"))
        k2 == PropertyKey(Get(ride, "routeServiceId"))
    IN  IF k1 \in DOMAIN dir THEN dir[k1]
        ELSE IF k2 \in DOMAIN dir THEN dir[k2]
        ELSE [id |-> Or(Get(ride, "routeId"), Get(ride, "routeServiceId")),
              name |-> Str(SHUTTLE), shortName |-> Str(SHUTTLE),
              colorLabel |-> <<>>]

-----------------------------------------------------------------------------
(* TripShot PARSER: one ride *)

WALK == <<"w", "a", "l", "k">>
MANHATTANVILLE == <<"m", "a", "n", "h", "a", "t", "t", "a", "n", "v", "i", "l", "l", "e">>
M_VILLE == <<"m", "'", "v", "i", "l", "l", "e">>
MVILLE == <<"m", "v", "i", "l", "l", "e">>

\* v.toString() of a mode: modes are strings, or absent, in the documents of
\* this model
ToStringJS(v) == IF v.t = "string" THEN v.s ELSE <<>>

\* (v || "").toLowerCase() where v is a string or falsy
LowerOrEmpty(v) ==
    LET x == Or(v, Str(<<>>))
    IN  IF x.t = "string" THEN toLowerCase(x.s) ELSE <<>>

\* (v || "").toLowerCase() raises a TypeError when v is truthy and no string
LowerOrEmptyThrows(v) == Truthy(v) /\ v.t \notin {"string", "isostring"}

\* the walking test without its toLowerCase()
isWalkingRide_caseSensitive(ride) ==
    LET mode == Or(Or(Get(ride, "mode"), Get(ride, "type")), Str(<<>>))
    IN  includes(ToStringJS(mode), WALK)

isWalkingRide(ride) ==
    LET mode == Or(Or(Get(ride, "mode"), Get(ride, "type")), Str(<<>>))
    IN  includes(toLowerCase(ToStringJS(mode)), WALK)

\* the Manhattanville test of v14, with the two short spellings
isManhattanville_v14(routeInfo) ==
    LET rName == LowerOrEmpty(routeInfo.name)
        rShort == LowerOrEmpty(routeInfo.shortName)
    IN  \/ includes(rName, MANHATTANVILLE) \/ includes(rName, M_VILLE)
        \/ includes(rName, MVILLE)
        \/ includes(rShort, MANHATTANVILLE) \/ includes(rShort, M_VILLE)
        \/ includes(rShort, MVILLE)

\* the Manhattanville test of v15
isManhattanville_v15(routeInfo) ==
    LET rName == LowerOrEmpty(routeInfo.name)
        rShort == LowerOrEmpty(routeInfo.shortName)
    IN  includes(rName, MANHATTANVILLE) \/ includes(rShort, MANHATTANVILLE)

\* the Manhattanville test on the name alone
isManhattanville_nameOnly(v, routeInfo) ==
    includes(LowerOrEmpty(routeInfo.name), MANHATTANVILLE)

isManhattanville(v, routeInfo) ==
    IF v = "v14" THEN isManhattanville_v14(routeInfo)
    ELSE isManhattanville_v15(routeInfo)

\* the record a stop-status element stands for: a single-key object (or a
\* one-element array) whose value is an object, an array or null is unwrapped
Unwrap(wrapper) ==
    CASE wrapper.t = "object" /\ Cardinality(DOMAIN wrapper.f) = 1
            /\ TypeofObject(wrapper.f[CHOOSE k \in DOMAIN wrapper.f : TRUE])
         -> wrapper.f[CHOOSE k \in DOMAIN wrapper.f : TRUE]
      [] wrapper.t = "array" /\ Len(wrapper.a) = 1 /\ TypeofObject(wrapper.a[1])
         -> wrapper.a[1]
      [] OTHER -> wrapper

\* the turn of the loop with either origin stop taken for the origin
ScanStep_eitherOrigin(nodes, wrapper, originIdLower, ninetySixIdLower) ==
    IF ~Truthy(wrapper) THEN nodes
    ELSE LET inner == Unwrap(wrapper)
             sid == LowerOrEmpty(Get(inner, "stopId"))
         IN  [originNode |->
                 IF sid \in {toLowerCase(EC_S_STOP_ID), toLowerCase(S120_STOP_ID)}
                 THEN inner ELSE nodes.originNode,
              ninetySixNode |->
                 IF sid = ninetySixIdLower THEN inner ELSE nodes.ninetySixNode]

\* one turn of the loop over statuses; nodes holds originNode and
\* ninetySixNode, the last matching record wins
ScanStep(nodes, wrapper, originIdLower, ninetySixIdLower) ==
    IF ~Truthy(wrapper) THEN nodes
    ELSE LET inner == Unwrap(wrapper)
             sid == LowerOrEmpty(Get(inner, "stopId"))
         IN  [originNode |->
                 IF sid = originIdLower THEN inner ELSE nodes.originNode,
              ninetySixNode |->
                 IF sid = ninetySixIdLower THEN inner ELSE nodes.ninetySixNode]

RECURSIVE ScanFrom(_, _, _, _, _)
ScanFrom(statuses, i, nodes, originIdLower, ninetySixIdLower) ==
    IF i > Len(statuses) THEN nodes
    ELSE ScanFrom(statuses, i + 1,
                  ScanStep(nodes, statuses[i], originIdLower, ninetySixIdLower),
                  originIdLower, ninetySixIdLower)

\* originNode and ninetySixNode after the loop over ride.stopStatus || []
ScanStatuses(ride, originStopId) ==
    ScanFrom(Elements(Or(Get(ride, "stopStatus"), Arr(<<>>))), 1,
             [originNode |-> Null, ninetySixNode |-> Null],
             toLowerCase(originStopId), toLowerCase(NINETY_SIX_STOP_ID))

scheduledTimeOf(originNode) ==
    Or(Or(Get(originNode, "scheduledDepartureTime"),
          Get(originNode, "scheduledArrivalTime")),
       Get(originNode, "scheduledAt"))

liveTimeOf(originNode) ==
    Or(Or(Get(originNode, "expectedArrivalTime"),
          Get(originNode, "expectedDepartureTime")),
       scheduledTimeOf(originNode))

ninetySixTimeOf(ninetySixNode) ==
    Or(Or(Get(ninetySixNode, "expectedArrivalTime"),
          Get(ninetySixNode, "scheduledArrivalTime")),
       Get(ninetySixNode, "scheduledAt"))

\* reaches96 with <= for <
reaches96_orEqual(liveTime, ninetySixNode) ==
    /\ Truthy(ninetySixNode)
    /\ Truthy(Or(Or(Get(ninetySixNode, "expectedArrivalTime"),
                    Get(ninetySixNode, "scheduledArrivalTime")),
                 Get(ninetySixNode, "scheduledAt")))
    /\ DateParse(liveTime)
           <= DateParse(Or(Or(Get(ninetySixNode, "expectedArrivalTime"),
                              Get(ninetySixNode, "scheduledArrivalTime")),
                           Get(ninetySixNode, "scheduledAt")))

\* reaches96
reaches96(liveTime, ninetySixNode) ==
    /\ Truthy(ninetySixNode)
    /\ Truthy(ninetySixTimeOf(ninetySixNode))
    /\ DateParse(liveTime) < DateParse(ninetySixTimeOf(ninetySixNode))

\* entry.delayed with >= for >
isDelayed_orEqual(liveTime, scheduledTime) ==
    /\ Truthy(scheduledTime)
    /\ DateParse(liveTime) - DateParse(scheduledTime) >= 1 * 60000

\* entry.delayed
isDelayed(liveTime, scheduledTime) ==
    /\ Truthy(scheduledTime)
    /\ DateParse(liveTime) - DateParse(scheduledTime) > 1 * 60000

\* colorKey of v14: the label lower-cased, else a second look at the names,
\* else blue; anything but the three keys is forced to blue
colorKey_v14(routeInfo) ==
    LET k == IF routeInfo.colorLabel # <<>>
                 THEN KeyOfString(toLowerCase(routeInfo.colorLabel))
             ELSE IF RegexTestI(GREEN, routeInfo.name)
                     \/ RegexTestI(GREEN, routeInfo.shortName) THEN "green"
             ELSE IF RegexTestI(RED, routeInfo.name)
                     \/ RegexTestI(RED, routeInfo.shortName) THEN "red"
             ELSE "blue"
    IN  IF k \in {"green", "red", "blue"} THEN k ELSE "blue"

\* colorKey of v15: the label lower-cased, else blue
colorKey_v15(routeInfo) ==
    IF routeInfo.colorLabel # <<>>
    THEN KeyOfString(toLowerCase(routeInfo.colorLabel))
    ELSE "blue"

colorKeyOf(v, routeInfo) ==
    IF v = "v14" THEN colorKey_v14(routeInfo) ELSE colorKey_v15(routeInfo)

\* entry.color of v14: the label, else the key with its first letter raised
entryColor_v14(routeInfo, colorKey) ==
    IF routeInfo.colorLabel # <<>> THEN routeInfo.colorLabel
    ELSE toUpperCase(SubSeq(KeyString(colorKey), 1, 1))
             \o SubSeq(KeyString(colorKey), 2, Len(KeyString(colorKey)))

\* entry.color of v15: the label, else the key as it is
entryColor_v15(routeInfo, colorKey) ==
    IF routeInfo.colorLabel # <<>> THEN routeInfo.colorLabel
    ELSE KeyString(colorKey)

entryColor(v, routeInfo, colorKey) ==
    IF v = "v14" THEN entryColor_v14(routeInfo, colorKey)
    ELSE entryColor_v15(routeInfo, colorKey)

NoPush == [push |-> FALSE]

\* considerRide(ride, routeInfo): what it pushes, and to which bucket
considerRide(v, ride, routeInfo, originStopId, nowMs, tzOff) ==
    IF ~Truthy(ride) THEN NoPush
    ELSE IF isManhattanville(v, routeInfo) THEN NoPush
    ELSE LET nodes == ScanStatuses(ride, originStopId)
             originNode == nodes.originNode
             scheduledTime == scheduledTimeOf(originNode)
             liveTime == liveTimeOf(originNode)
             colorKey == colorKeyOf(v, routeInfo)
         IN  IF ~Truthy(originNode) THEN NoPush
             ELSE IF ~Truthy(liveTime) THEN NoPush
             ELSE [push |-> TRUE,
                   key |-> colorKey,
                   entry |-> [routeName |-> routeInfo.name,
                              color |-> entryColor(v, routeInfo, colorKey),
                              time |-> formatTime(liveTime, tzOff),
                              rawISO |-> liveTime,
                              inMinutes |-> minutesFromNow(liveTime, nowMs),
                              direct |-> reaches96(liveTime, nodes.ninetySixNode),
                              delayed |-> isDelayed(liveTime, scheduledTime)]]

\* a stop-status element at which the loop raises a TypeError: the stopId of
\* null is read, or toLowerCase is called on a stopId that is no string
StatusThrows(wrapper) ==
    /\ Truthy(wrapper)
    /\ \/ GetThrows(Unwrap(wrapper))
       \/ LowerOrEmptyThrows(Get(Unwrap(wrapper), "stopId"))

considerRideThrows(v, ride, routeInfo) ==
    /\ Truthy(ride)
    /\ \/ LowerOrEmptyThrows(routeInfo.name)
       \/ LowerOrEmptyThrows(routeInfo.shortName)
       \/ /\ ~isManhattanville(v, routeInfo)
          /\ LET statuses == Or(Get(ride, "stopStatus"), Arr(<<>>))
             IN  \/ IterateThrows(statuses)
                 \/ \E i \in 1..Len(Elements(statuses)) :
                        StatusThrows(Elements(statuses)[i])

-----------------------------------------------------------------------------
(* TripShot PARSER: the document *)

EmptyBuckets == [green |-> <<>>, red |-> <<>>, blue |-> <<>>]

\* one turn of the loop over rides: a walking ride is passed over, any other
\* is looked up in the route directory and considered
RideStep(v, b, dir, ride, originStopId, nowMs, tzOff) ==
    IF isWalkingRide(ride) THEN b
    ELSE LET c == considerRide(v, ride, resolveRouteInfo(dir, ride),
                               originStopId, nowMs, tzOff)
         IN  IF c.push THEN [b EXCEPT ![c.key] = Append(@, c.entry)] ELSE b

RECURSIVE RidesFrom(_, _, _, _, _, _, _, _)
RidesFrom(v, rides, i, b, dir, originStopId, nowMs, tzOff) ==
    IF i > Len(rides) THEN b
    ELSE RidesFrom(v, rides, i + 1,
                   RideStep(v, b, dir, rides[i], originStopId, nowMs, tzOff),
                   dir, originStopId, nowMs, tzOff)

\* the local buckets after the loop over json.rides || [], before the sort
bucketsOf(v, json, originStopId, nowMs, tzOff) ==
    RidesFrom(v, Elements(Or(Get(json, "rides"), Arr(<<>>))), 1, EmptyBuckets,
              routeInfoById(json), originStopId, nowMs, tzOff)

\* arr with e put behind every entry that is not later than e
InsertByRawISO(arr, e) ==
    LET n == Cardinality({i \in 1..Len(arr) :
                 DateParse(arr[i].rawISO) <= DateParse(e.rawISO)})
    IN  SubSeq(arr, 1, n) \o <<e>> \o SubSeq(arr, n + 1, Len(arr))

RECURSIVE SortFrom(_, _, _)
SortFrom(arr, i, sorted) ==
    IF i > Len(arr) THEN sorted
    ELSE SortFrom(arr, i + 1, InsertByRawISO(sorted, arr[i]))

\* the sort left out
sortByRawISO_unsorted(arr) == arr

\* arr.sort((a, b) => new Date(a.rawISO) - new Date(b.rawISO)): Array.sort is
\* stable, entries of equal instant keep the order they were pushed in
sortByRawISO(arr) == SortFrom(arr, 1, <<>>)

BUCKET_LIMIT == 3

\* the cut one entry late
slice3_keepFour(arr) == SubSeq(arr, 1, Min(BUCKET_LIMIT + 1, Len(arr)))

\* arr.slice(0, 3)
slice3(arr) == SubSeq(arr, 1, Min(BUCKET_LIMIT, Len(arr)))

\* result after the loop that sorts each colour's list and keeps three
resultOf(b, originLabel) ==
    [stopName |-> originLabel,
     green |-> slice3(sortByRawISO(b.green)),
     red |-> slice3(sortByRawISO(b.red)),
     blue |-> slice3(sortByRawISO(b.blue))]

\* the value parseTripShotCommutePlanForOrigin returns
parseTripShotCommutePlanForOrigin(v, json, originStopId, originLabel, nowMs, tzOff) ==
    resultOf(bucketsOf(v, json, originStopId, nowMs, tzOff), originLabel)

\* the loop over routes raises a TypeError: routes is not iterable, or the
\* routeId of a null element is read
routesThrow(json) ==
    LET routes == Or(Get(json, "routes"), Arr(<<>>))
    IN  \/ IterateThrows(routes)
        \/ \E i \in 1..Len(Elements(routes)) : GetThrows(Elements(routes)[i])

\* a turn of the loop over rides raises a TypeError: isWalkingRide reads the
\* mode of a null element, or considerRide raises
rideThrows(v, dir, ride) ==
    \/ GetThrows(ride)
    \/ /\ ~isWalkingRide(ride)
       /\ considerRideThrows(v, ride, resolveRouteInfo(dir, ride))

\* parseTripShotCommutePlanForOrigin raises a TypeError
parseThrows(v, json) ==
    \/ GetThrows(json)
    \/ routesThrow(json)
    \/ LET rides == Or(Get(json, "rides"), Arr(<<>>))
       IN  \/ IterateThrows(rides)
           \/ \E i \in 1..Len(Elements(rides)) :
                  rideThrows(v, routeInfoById(json), Elements(rides)[i])

-----------------------------------------------------------------------------
(* Upstream documents the handler is fed *)

\* the instant of a New York wall-clock reading h:m:00 and ms milliseconds
NYC(h, m, ms) == ((h * 60 + m) * 60000) + ms - NYC_UTC_OFFSET

\* the timestamp string of an instant, written in UTC or with New York's offset
IsoZ(inst) == Iso(inst, 0)
IsoNY(inst) == Iso(inst + NYC_UTC_OFFSET, NYC_UTC_OFFSET)

\* an object holding the fields of r that are not undefined
Compact(r) == Obj([k \in {x \in DOMAIN r : r[x] # Undefined} |-> r[k]])

\* {<anyKey>: value}
Envelope(value) == Obj([leg |-> value])

OTHER_STOP_ID == <<"O", "T", "H", "E", "R", "-", "S", "T", "O", "P">>

MaxRides == 4
MaxRoutes == 2
MaxStatuses == 2

SeqsUpTo(S, n) == UNION {[1..k -> S] : k \in 0..n}

StopRecord(stopId, sDep, sArr, sAt, eArr, eDep) ==
    Compact([stopId |-> stopId,
             scheduledDepartureTime |-> sDep, scheduledArrivalTime |-> sArr,
             scheduledAt |-> sAt,
             expectedArrivalTime |-> eArr, expectedDepartureTime |-> eDep])

Route(routeId, name, shortName) ==
    Compact([routeId |-> routeId, name |-> name, shortName |-> shortName])

Ride(mode, type, routeId, routeServiceId, stopStatus) ==
    Compact([mode |-> mode, type |-> type, routeId |-> routeId,
             routeServiceId |-> routeServiceId, stopStatus |-> stopStatus])

Doc(routes, rides) == Compact([routes |-> routes, rides |-> rides])

R1 == Str(<<"r", "1">>)
R2 == Str(<<"r", "2">>)
GreenLoop == Str(<<"G", "r", "e", "e", "n", " ", "L", "o", "o", "p">>)
RedLine == Str(<<"R", "E", "D", " ", "L", "i", "n", "e">>)
BigBlue == Str(<<"B", "i", "g", " ", "B", "l", "u", "e">>)
CrimsonExpress == Str(<<"C", "r", "i", "m", "s", "o", "n", " ", "E", "x", "p", "r", "e", "s", "s">>)
ManhattanvilleShuttle == Str(<<"M", "a", "n", "h", "a", "t", "t", "a", "n", "v", "i", "l", "l", "e", " ", "S", "h", "u", "t", "t", "l", "e">>)
ManhattanvilleUpper == Str(<<"M", "A", "N", "H", "A", "T", "T", "A", "N", "V", "I", "L", "L", "E">>)
MVilleLoop == Str(<<"M", "'", "V", "i", "l", "l", "e", " ", "L", "o", "o", "p">>)

\* a shuttle run that calls at EC S at instant t, at 120 S two minutes later
\* and at 96th St fifteen minutes later
RunStatuses(t) ==
    Arr(<<Envelope(StopRecord(Str(EC_S_STOP_ID), Undefined, IsoZ(t), Undefined,
                              IsoZ(t), Undefined)),
          Envelope(StopRecord(Str(S120_STOP_ID), Undefined, IsoZ(t + 2 * 60000),
                              Undefined, IsoZ(t + 2 * 60000), Undefined)),
          Envelope(StopRecord(Str(NINETY_SIX_STOP_ID), Undefined,
                              IsoZ(t + 15 * 60000), Undefined, Undefined,
                              Undefined))>>)

\* documents of several rides on few routes: what the sort, the cut to three
\* and the filter of the served body see
SortTimes == {NYC(9, 59, 0), NYC(10, 0, 500), NYC(10, 1, 0), NYC(10, 3, 0)}

SortRides ==
    {Ride(Undefined, Undefined, R1, Undefined, RunStatuses(t)) : t \in SortTimes}
    \cup {Ride(Undefined, Undefined, Undefined, R2, RunStatuses(NYC(10, 1, 0)))}

SortDocs ==
    {Doc(Arr(<<Route(R1, GreenLoop, Undefined)>>), Arr(rides)) :
        rides \in SeqsUpTo(SortRides, MaxRides)}

\* documents of one ride and a route list: how the ride's route is resolved
RouteNames ==
    {Undefined, GreenLoop, RedLine, BigBlue, CrimsonExpress, ManhattanvilleUpper,
     MVilleLoop}

RouteShortNames == {Undefined, ManhattanvilleShuttle, RedLine, Str(SHUTTLE)}

RouteElems ==
    {Route(id, name, shortName) :
        id \in {Undefined, R1, R2}, name \in RouteNames,
        shortName \in RouteShortNames}

FewRouteElems ==
    {Route(id, name, Undefined) :
        id \in {R1, R2}, name \in {GreenLoop, CrimsonExpress, ManhattanvilleUpper}}

RouteLists ==
    {<<e>> : e \in RouteElems} \cup SeqsUpTo(FewRouteElems, MaxRoutes)

RouteDocs ==
    {Doc(Arr(routes),
         Arr(<<Ride(Undefined, Undefined, routeId, routeServiceId,
                    RunStatuses(NYC(10, 1, 0)))>>)) :
        routes \in RouteLists, routeId \in {Undefined, R1, R2},
        routeServiceId \in {Undefined, R1, R2}}

\* documents of one ride whose mode, type and stop-status list vary: what
\* the walking test and the search for the origin stop see
ModeValues == {Undefined, Str(<<"W", "A", "L", "K", "I", "N", "G">>), Str(<<"B", "u", "s">>)}
TypeValues == {Undefined, Str(<<"s", "i", "d", "e", "W", "a", "l", "k">>)}

ScanStopIds ==
    {Str(toLowerCase(EC_S_STOP_ID)), Str(toUpperCase(S120_STOP_ID)),
     Str(toLowerCase(NINETY_SIX_STOP_ID)), Str(OTHER_STOP_ID)}

ScanWrappers ==
    LET rec(id) == StopRecord(id, Undefined, Undefined, Undefined,
                              IsoNY(NYC(10, 1, 0)), Undefined)
    IN  {rec(id) : id \in ScanStopIds} \cup {Envelope(rec(id)) : id \in ScanStopIds}

ModeDocs ==
    {Doc(Arr(<<Route(R1, GreenLoop, Undefined)>>),
         Arr(<<Ride(mode, type, routeId, Undefined, Arr(statuses))>>)) :
        mode \in ModeValues, type \in TypeValues, routeId \in {Undefined, R1},
        statuses \in SeqsUpTo(ScanWrappers, MaxStatuses)}

\* documents of one ride whose origin and destination records carry every
\* mix of time fields: what direct and delayed see
T0 == NYC(10, 0, 0)

OriginRecords(stopId) ==
    {StopRecord(stopId, sDep, sArr, sAt, eArr, eDep) :
        sDep \in {Undefined, IsoZ(T0)},
        sArr \in {Undefined, IsoNY(T0 + 60000)},
        sAt \in {Undefined, IsoZ(T0 - 60000)},
        eArr \in {Undefined, Null, IsoZ(T0 + 60000), IsoNY(T0 + 60001)},
        eDep \in {Undefined, IsoZ(T0), IsoZ(T0 + 3 * 60000)}}

DestinationRecords ==
    {StopRecord(Str(NINETY_SIX_STOP_ID), Undefined, sArr, sAt, eArr, Undefined) :
        sArr \in {Undefined, IsoZ(T0 - 5 * 60000)},
        sAt \in {Undefined, IsoZ(T0 + 15 * 60000)},
        eArr \in {Undefined, IsoNY(T0 + 60000), IsoZ(T0 + 15 * 60000)}}

TimeStatuses ==
    {<<o>> : o \in OriginRecords(Str(EC_S_STOP_ID)) \cup OriginRecords(Str(S120_STOP_ID))}
    \cup {<<Envelope(o), d>> :
            o \in OriginRecords(Str(EC_S_STOP_ID)), d \in DestinationRecords}
    \cup {<<d, Envelope(o), e>> :
            o \in {StopRecord(Str(S120_STOP_ID), Undefined, Undefined, Undefined,
                              IsoZ(T0 + 60000), Undefined)},
            d \in DestinationRecords, e \in DestinationRecords}

TimeDocs ==
    {Doc(Undefined, Arr(<<Ride(Undefined, Undefined, Undefined, Undefined,
                               Arr(statuses))>>)) :
        statuses \in TimeStatuses}

\* documents with parts missing or of another type than the format names
BadWrappers ==
    {Null, Num(7), Envelope(Null), Envelope(Num(7)), Envelope(Arr(<<>>)),
     StopRecord(Undefined, Undefined, Undefined, Undefined, IsoZ(T0), Undefined),
     StopRecord(Num(7), Undefined, Undefined, Undefined, IsoZ(T0), Undefined),
     StopRecord(Num(0), Undefined, Undefined, Undefined, IsoZ(T0), Undefined),
     Envelope(StopRecord(Null, Undefined, Undefined, Undefined, IsoZ(T0), Undefined))}

GoodWrapper ==
    StopRecord(Str(EC_S_STOP_ID), Undefined, Undefined, Undefined, IsoZ(T0), Undefined)

BadRides ==
    {Null, Num(0), Obj([k \in {} |-> Undefined]),
     Ride(Str(<<"W", "A", "L", "K", "I", "N", "G">>), Undefined, Undefined,
          Undefined, Arr(<<Envelope(Null)>>)),
     Ride(Undefined, Undefined, R2, Undefined, Arr(<<Envelope(Null)>>)),
     Ride(Undefined, Undefined, Undefined, Undefined, Num(7))}
    \cup {Ride(Undefined, Undefined, Undefined, Undefined, Arr(<<w, GoodWrapper>>)) :
            w \in BadWrappers}
    \cup {Ride(Undefined, Undefined, Undefined, Undefined, Arr(<<GoodWrapper, w>>)) :
            w \in BadWrappers}

GoodRide ==
    Ride(Undefined, Undefined, R1, Undefined, Arr(<<GoodWrapper>>))

BadDocs ==
    {Null, Num(7), Obj([k \in {} |-> Undefined]),
     Doc(Undefined, Arr(<<GoodRide>>)),
     Doc(Arr(<<Route(R1, GreenLoop, Undefined)>>), Undefined),
     Doc(Null, Null),
     Doc(Num(7), Arr(<<GoodRide>>)),
     Doc(Arr(<<Null, Route(R1, GreenLoop, Undefined)>>), Arr(<<GoodRide>>)),
     Doc(Arr(<<Route(Undefined, GreenLoop, Undefined),
               Route(R1, Undefined, Undefined)>>), Arr(<<GoodRide>>))}
    \cup {Doc(Arr(<<Route(R2, ManhattanvilleUpper, Undefined)>>), Arr(<<r, GoodRide>>)) :
            r \in BadRides}
    \cup {Doc(Arr(<<Route(R1, BigBlue, Undefined)>>), Arr(<<GoodRide, r>>)) :
            r \in BadRides}

Docs == SortDocs \cup RouteDocs \cup ModeDocs \cup TimeDocs \cup BadDocs

\* what one run of the handler reads once both bodies are parsed: the two
\* documents and the clock
Inputs ==
    {[data |-> [ecS |-> d, s120 |-> d], now |-> NYC(10, 0, 700)] : d \in Docs}
    \cup {[data |-> [ecS |-> d, s120 |-> d], now |-> NYC(10, 2, 0)] : d \in SortDocs}
    \cup {[data |-> [ecS |-> d, s120 |-> Doc(Undefined, Arr(<<GoodRide>>))],
           now |-> NYC(10, 0, 700)] : d \in BadDocs}
    \cup {[data |-> [ecS |-> Doc(Undefined, Arr(<<GoodRide>>)), s120 |-> d],
           now |-> NYC(10, 0, 700)] : d \in BadDocs}

\* UTC offsets of the zones the server process may run in: UTC (the container
\* of the Dockerfile sets no zone) and America/New_York
TimeZones == {0, NYC_UTC_OFFSET}

-----------------------------------------------------------------------------
(* SHUTTLE API: GET /api/shuttle *)

NoResult == [threw |-> FALSE, returned |-> FALSE]
Threw == [threw |-> TRUE, returned |-> FALSE]
Returned(result) == [threw |-> FALSE, returned |-> TRUE, result |-> result]

NoResponse == [status |-> 0]
ErrorResponse(msg) == [status |-> 500, error |-> msg]
OkResponse(body) == [status |-> 200, body |-> body]

Init ==
    /\ ver \in Editions
    /\ tz \in TimeZones
    /\ pc = "idle"
    /\ fetchSt = [o \in Origins |-> "none"]
    /\ jsonSt = [o \in Origins |-> "none"]
    /\ data = [o \in Origins |-> Undefined]
    /\ now = 0
    /\ buckets = [o \in Origins |-> EmptyBuckets]
    /\ parsed = [o \in Origins |-> NoResult]
    /\ response = NoResponse

\* the request arrives: both payloads are built and both fetches are issued
\* before the handler awaits their join
Request ==
    /\ pc = "idle"
    /\ pc' = "awaitFetch"
    /\ fetchSt' = [o \in Origins |-> "pending"]
    /\ UNCHANGED <<ver, tz, jsonSt, data, now, buckets, parsed, response>>

\* an upstream answer arrives, with a success status or not
FetchResolve(o, ok) ==
    /\ fetchSt[o] = "pending"
    /\ fetchSt' = [fetchSt EXCEPT ![o] = IF ok THEN "ok" ELSE "notok"]
    /\ UNCHANGED <<ver, tz, pc, jsonSt, data, now, buckets, parsed, response>>

\* an upstream request fails in the network
FetchReject(o) ==
    /\ fetchSt[o] = "pending"
    /\ fetchSt' = [fetchSt EXCEPT ![o] = "rejected"]
    /\ UNCHANGED <<ver, tz, pc, jsonSt, data, now, buckets, parsed, response>>

\* Promise.all of the fetches rejects as soon as one of them has: catch
AwaitFetchRejected ==
    /\ pc = "awaitFetch"
    /\ \E o \in Origins : fetchSt[o] = "rejected"
    /\ pc' = "done"
    /\ response' = ErrorResponse("Shuttle API error")
    /\ UNCHANGED <<ver, tz, fetchSt, jsonSt, data, now, buckets, parsed>>

\* both fetches resolved and both bodies are handed to json() whatever the
\* status of the answers: the handler without its check of respEC.ok and
\* resp120.ok
AwaitFetchResolved_ignoreStatus ==
    /\ pc = "awaitFetch"
    /\ \A o \in Origins : fetchSt[o] \in {"ok", "notok"}
    /\ pc' = "awaitJson"
    /\ jsonSt' = [o \in Origins |-> "pending"]
    /\ UNCHANGED <<ver, tz, fetchSt, data, now, buckets, parsed, response>>

\* both fetches resolved: a non-success status ends the request, otherwise
\* both bodies are handed to json() and their join is awaited
AwaitFetchResolved ==
    /\ pc = "awaitFetch"
    /\ \A o \in Origins : fetchSt[o] \in {"ok", "notok"}
    /\ IF \E o \in Origins : fetchSt[o] = "notok"
       THEN /\ pc' = "done"
            /\ response' = ErrorResponse("TripShot request failed")
            /\ UNCHANGED jsonSt
       ELSE /\ pc' = "awaitJson"
            /\ jsonSt' = [o \in Origins |-> "pending"]
            /\ UNCHANGED response
    /\ UNCHANGED <<ver, tz, fetchSt, data, now, buckets, parsed>>

\* a body is read to its end and is JSON
JsonResolve(o) ==
    /\ jsonSt[o] = "pending"
    /\ jsonSt' = [jsonSt EXCEPT ![o] = "parsed"]
    /\ UNCHANGED <<ver, tz, pc, fetchSt, data, now, buckets, parsed, response>>

\* a body is cut short or is no JSON
JsonReject(o) ==
    /\ jsonSt[o] = "pending"
    /\ jsonSt' = [jsonSt EXCEPT ![o] = "rejected"]
    /\ UNCHANGED <<ver, tz, pc, fetchSt, data, now, buckets, parsed, response>>

\* Promise.all of the json() calls rejects as soon as one of them has: catch
AwaitJsonRejected ==
    /\ pc = "awaitJson"
    /\ \E o \in Origins : jsonSt[o] = "rejected"
    /\ pc' = "done"
    /\ response' = ErrorResponse("Shuttle API error")
    /\ UNCHANGED <<ver, tz, fetchSt, jsonSt, data, now, buckets, parsed>>

\* the body v14 serves: the two results as parsed
servedBody_v14(results, nowMs, tzOff) ==
    [o \in Origins |-> results[o]]

\* the body v15 serves: every bucket of both results filtered
servedBody_v15(results, nowMs, tzOff) ==
    [o \in Origins |->
        [stopName |-> results[o].stopName,
         green |-> filterTripsAfterNYCNow(results[o].green, nowMs, tzOff),
         red |-> filterTripsAfterNYCNow(results[o].red, nowMs, tzOff),
         blue |-> filterTripsAfterNYCNow(results[o].blue, nowMs, tzOff)]]

servedBody(v, results, nowMs, tzOff) ==
    IF v = "v14" THEN servedBody_v14(results, nowMs, tzOff)
    ELSE servedBody_v15(results, nowMs, tzOff)

\* both bodies are parsed: EC S is normalized, then 120 S, (v15) the buckets
\* are filtered and the body is served, all in one synchronous run; a
\* TypeError raised on the way is caught and answered with the error
Normalize ==
    /\ pc = "awaitJson"
    /\ \A o \in Origins : jsonSt[o] = "parsed"
    /\ \E in \in Inputs :
        \E threwEC \in {parseThrows(ver, in.data["ecS"])} :
        \E threw120 \in {~threwEC /\ parseThrows(ver, in.data["s120"])} :
            /\ data' = in.data
            /\ now' = in.now
            /\ buckets' = [o \in Origins |->
                   IF threwEC \/ (o = "s120" /\ threw120) THEN EmptyBuckets
                   ELSE bucketsOf(ver, in.data[o], OriginStopId(o), in.now, tz)]
            /\ parsed' = [o \in Origins |->
                   IF o = "ecS" /\ threwEC THEN Threw
                   ELSE IF o = "s120" /\ threwEC THEN NoResult
                   ELSE IF o = "s120" /\ threw120 THEN Threw
                   ELSE Returned(resultOf(buckets'[o], OriginLabel(o)))]
            /\ response' =
                   IF threwEC \/ threw120
                   THEN ErrorResponse("Shuttle API error")
                   ELSE OkResponse(servedBody(ver,
                            [o \in Origins |-> parsed'[o].result], in.now, tz))
    /\ pc' = "done"
    /\ UNCHANGED <<ver, tz, fetchSt, jsonSt>>

Next ==
    \/ Request
    \/ \E o \in Origins, ok \in BOOLEAN : FetchResolve(o, ok)
    \/ \E o \in Origins : FetchReject(o)
    \/ AwaitFetchRejected
    \/ AwaitFetchResolved
    \/ \E o \in Origins : JsonResolve(o)
    \/ \E o \in Origins : JsonReject(o)
    \/ AwaitJsonRejected
    \/ Normalize

Spec == Init /\ [][Next]_vars

\* the continuation of an await runs once its promise has settled: the event
\* loop leaves no rejected join, and no resolved join of the fetches, waiting
\* for ever. Nothing is assumed of the upstream, which may leave a request
\* unanswered.
HandlerFairness ==
    /\ WF_vars(AwaitFetchRejected)
    /\ WF_vars(AwaitFetchResolved)
    /\ WF_vars(AwaitJsonRejected)

LiveSpec == Spec /\ HandlerFairness

-----------------------------------------------------------------------------
(* Properties: the vocabulary of the claims *)

\* the rides of the document origin o was normalized from
RidesOf(o) == Elements(Or(Get(data[o], "rides"), Arr(<<>>)))

\* the stop-status elements of a ride
StatusesOf(ride) == Elements(Or(Get(ride, "stopStatus"), Arr(<<>>)))

\* the number of entries the rides of o's document gave, over all colours
Pushed(o) ==
    Len(buckets[o].green) + Len(buckets[o].red) + Len(buckets[o].blue)

\* every entry of o, before the sort and the cut
EntriesOf(o) ==
    UNION {{buckets[o][k][j] : j \in 1..Len(buckets[o][k])} :
              k \in {"green", "red", "blue"}}

ContainsIgnoringCase(v, word) ==
    v.t = "string" /\ includes(toLowerCase(v.s), word)

SameIgnoringCase(v, id) ==
    v.t = "string" /\ toLowerCase(v.s) = toLowerCase(id)

\* the mode of a ride, or its type when it has no mode
ModeOrType(ride) ==
    IF Truthy(Get(ride, "mode")) THEN Get(ride, "mode") ELSE Get(ride, "type")

SaysWalk(ride) == ContainsIgnoringCase(ModeOrType(ride), WALK)

\* the positions of the stop-status records of a ride that name a stop
RecordsFor(ride, stopId) ==
    {i \in 1..Len(StatusesOf(ride)) :
        SameIgnoringCase(Get(Unwrap(StatusesOf(ride)[i]), "stopId"), stopId)}

HasRecordFor(ride, stopId) == RecordsFor(ride, stopId) # {}

\* the record of a ride for a stop: the last one when several name it
RecordFor(ride, stopId) ==
    LET S == RecordsFor(ride, stopId)
    IN  IF S = {} THEN Null
        ELSE Unwrap(StatusesOf(ride)[CHOOSE i \in S : \A j \in S : j <= i])

\* the first field of names that a record holds a value for
FirstPresent(rec, names) ==
    LET S == {i \in 1..Len(names) : Truthy(Get(rec, names[i]))}
    IN  IF S = {} THEN Undefined
        ELSE Get(rec, names[CHOOSE i \in S : \A j \in S : i <= j])

ScheduledFields == <<"scheduledDepartureTime", "scheduledArrivalTime", "scheduledAt">>
LiveFields == <<"expectedArrivalTime", "expectedDepartureTime">>
DestinationFields == <<"expectedArrivalTime", "scheduledArrivalTime", "scheduledAt">>

ScheduledOf(rec) == FirstPresent(rec, ScheduledFields)

LiveOf(rec) ==
    IF Truthy(FirstPresent(rec, LiveFields)) THEN FirstPresent(rec, LiveFields)
    ELSE ScheduledOf(rec)

\* the route a ride resolves to has manhattanville in its name or short name
OnManhattanville(json, ride) ==
    LET info == resolveRouteInfo(routeInfoById(json), ride)
    IN  \/ ContainsIgnoringCase(info.name, MANHATTANVILLE)
        \/ ContainsIgnoringCase(info.shortName, MANHATTANVILLE)

Count(S) == Cardinality(S)

-----------------------------------------------------------------------------
(* C1 *)

\* C1: a ride whose mode (or, when it has no mode, type) contains "walk" in
\* any letter case gives no entry to any bucket, whatever its route and its
\* stop-status records: a document gives at most as many entries as it has
\* rides that do not say walk.
C1_WalkingRidesGiveNoEntry ==
    \A o \in Origins :
        parsed[o].returned =>
            Pushed(o) <= Count({i \in 1..Len(RidesOf(o)) : ~SaysWalk(RidesOf(o)[i])})

\* a walking ride by its type alone, on a known route and with a record at
\* the origin stop, was normalized and gave nothing
C1_Witness ==
    \E o \in Origins :
        /\ parsed[o].returned
        /\ Pushed(o) = 0
        /\ \E i \in 1..Len(RidesOf(o)) :
            LET ride == RidesOf(o)[i]
            IN  /\ SaysWalk(ride)
                /\ ~Truthy(Get(ride, "mode"))
                /\ Truthy(Get(ride, "routeId"))
                /\ HasRecordFor(ride, OriginStopId(o))

-----------------------------------------------------------------------------
(* C2 *)

\* C2: a ride whose resolved route (by routeId, else by routeServiceId, else
\* the synthetic Shuttle route) has manhattanville, in any letter case, in its
\* name or short name gives no entry to any bucket, even with a valid record
\* at the origin stop.
C2_ManhattanvilleRidesGiveNoEntry ==
    \A o \in Origins :
        parsed[o].returned =>
            Pushed(o) <= Count({i \in 1..Len(RidesOf(o)) :
                                  ~OnManhattanville(data[o], RidesOf(o)[i])})

\* a ride resolved by its routeServiceId to a route that is Manhattanville by
\* its short name only, with a record at the origin stop, gave nothing
C2_Witness ==
    \E o \in Origins :
        /\ parsed[o].returned
        /\ Pushed(o) = 0
        /\ \E i \in 1..Len(RidesOf(o)) :
            LET ride == RidesOf(o)[i]
                info == resolveRouteInfo(routeInfoById(data[o]), ride)
            IN  /\ ~SaysWalk(ride)
                /\ ~Truthy(Get(ride, "routeId"))
                /\ Truthy(Get(ride, "routeServiceId"))
                /\ ~ContainsIgnoringCase(info.name, MANHATTANVILLE)
                /\ ContainsIgnoringCase(info.shortName, MANHATTANVILLE)
                /\ HasRecordFor(ride, OriginStopId(o))
                /\ Truthy(LiveOf(RecordFor(ride, OriginStopId(o))))

-----------------------------------------------------------------------------
(* C3 *)

\* C3: a ride none of whose unwrapped stop-status records has a stopId equal,
\* letter case aside, to the requested origin stop gives no entry to any
\* bucket; a ride that only calls at the other origin or at 96th St is dropped.
C3_RidesWithoutOriginRecordGiveNoEntry ==
    \A o \in Origins :
        parsed[o].returned =>
            Pushed(o) <= Count({i \in 1..Len(RidesOf(o)) :
                                  HasRecordFor(RidesOf(o)[i], OriginStopId(o))})

\* a ride with records at the other origin and at 96th St only gave nothing
C3_Witness ==
    \E o \in Origins :
        /\ parsed[o].returned
        /\ Pushed(o) = 0
        /\ \E i \in 1..Len(RidesOf(o)) :
            LET ride == RidesOf(o)[i]
            IN  /\ ~SaysWalk(ride)
                /\ ~OnManhattanville(data[o], ride)
                /\ ~HasRecordFor(ride, OriginStopId(o))
                /\ \E p \in Origins \ {o} : HasRecordFor(ride, OriginStopId(p))
                /\ HasRecordFor(ride, NINETY_SIX_STOP_ID)

-----------------------------------------------------------------------------
(* C4 *)

\* the instant an entry's rawISO denotes
InstantOf(e) == DateParse(e.rawISO)

\* the bucket of colour k in what the parser returned for o
ResultBucket(o, k) == parsed[o].result[k]

BucketNames == {"green", "red", "blue"}

\* C4 as stated: every bucket of the result is sorted strictly ascending by
\* raw timestamp, also when rides share the same origin live time.
C4_StrictlyAscending ==
    \A o \in Origins :
        parsed[o].returned =>
            \A k \in BucketNames :
                \A j \in 1..(Len(ResultBucket(o, k)) - 1) :
                    InstantOf(ResultBucket(o, k)[j]) < InstantOf(ResultBucket(o, k)[j + 1])

\* C4 as amended: every bucket of the result is sorted ascending by raw
\* timestamp, consecutive entries being of equal or growing instant; rides of
\* the same origin live time each keep their entry.
C4_Ascending ==
    \A o \in Origins :
        parsed[o].returned =>
            \A k \in BucketNames :
                \A j \in 1..(Len(ResultBucket(o, k)) - 1) :
                    InstantOf(ResultBucket(o, k)[j]) <= InstantOf(ResultBucket(o, k)[j + 1])

\* a bucket pushed out of order came back sorted, with two entries of the
\* same instant side by side and a later one behind them
C4_Witness ==
    \E o \in Origins, k \in BucketNames :
        /\ parsed[o].returned
        /\ Len(ResultBucket(o, k)) = 3
        /\ InstantOf(ResultBucket(o, k)[1]) = InstantOf(ResultBucket(o, k)[2])
        /\ InstantOf(ResultBucket(o, k)[2]) < InstantOf(ResultBucket(o, k)[3])
        /\ \E j \in 1..(Len(buckets[o][k]) - 1) :
               InstantOf(buckets[o][k][j]) > InstantOf(buckets[o][k][j + 1])

-----------------------------------------------------------------------------
(* C5 *)

\* how often an entry occurs in a list
CountIn(arr, e) == Cardinality({j \in 1..Len(arr) : arr[j] = e})

\* C5: no bucket of the result holds more than 3 entries, and each holds the
\* min(3, n) earliest of the n entries the qualifying rides of its colour
\* gave: what is kept was pushed, and nothing left out is earlier than
\* anything kept.
C5_ThreeEarliestKept ==
    \A o \in Origins :
        parsed[o].returned =>
            \A k \in BucketNames :
                LET all == buckets[o][k]
                    kept == ResultBucket(o, k)
                IN  /\ Len(kept) <= 3
                    /\ Len(kept) = Min(3, Len(all))
                    /\ \A j \in 1..Len(kept) :
                           CountIn(kept, kept[j]) <= CountIn(all, kept[j])
                    /\ \A i \in 1..Len(all) :
                           CountIn(all, all[i]) > CountIn(kept, all[i]) =>
                               \A j \in 1..Len(kept) :
                                   InstantOf(all[i]) >= InstantOf(kept[j])

\* four rides of one colour, the latest of them pushed first: three are kept
\* and the latest is left out
C5_Witness ==
    \E o \in Origins, k \in BucketNames :
        /\ parsed[o].returned
        /\ Len(buckets[o][k]) = 4
        /\ Len(ResultBucket(o, k)) = 3
        /\ \A j \in 2..4 : InstantOf(buckets[o][k][1]) > InstantOf(buckets[o][k][j])
        /\ CountIn(ResultBucket(o, k), buckets[o][k][1]) = 0

-----------------------------------------------------------------------------
(* C6 *)

\* the ride has a 96th St record with a usable time, and that time is
\* strictly later than the live time of its record at the origin stop
ReachesDestinationLater(ride, originStopId) ==
    LET dest == RecordFor(ride, NINETY_SIX_STOP_ID)
        destTime == FirstPresent(dest, DestinationFields)
        live == LiveOf(RecordFor(ride, originStopId))
    IN  /\ HasRecordFor(ride, NINETY_SIX_STOP_ID)
        /\ Truthy(destTime)
        /\ DateParse(destTime) > DateParse(live)

\* the rides of o's document an entry can stem from: those with a record at
\* the origin stop whose live time is the entry's rawISO
SourcesOf(o, e) ==
    {i \in 1..Len(RidesOf(o)) :
        /\ HasRecordFor(RidesOf(o)[i], OriginStopId(o))
        /\ LiveOf(RecordFor(RidesOf(o)[i], OriginStopId(o))) = e.rawISO}

\* C6: every entry is direct if and only if its ride has a 96th St record
\* with a usable time (first present of expectedArrivalTime,
\* scheduledArrivalTime, scheduledAt) strictly later than the origin live
\* time; it is not direct when the two are equal, when the 96th St time is
\* earlier, when the record has none of the three fields and when there is
\* no such record. (Of several records for one stop the scan keeps the last.)
C6_DirectIffDestinationLater ==
    \A o \in Origins :
        parsed[o].returned =>
            \A e \in EntriesOf(o) :
                \E i \in SourcesOf(o, e) :
                    e.direct <=> ReachesDestinationLater(RidesOf(o)[i], OriginStopId(o))

\* the only ride of a document calls at 96th St at the very instant of its
\* origin live time, and its entry is not direct
C6_Witness ==
    \E o \in Origins :
        /\ parsed[o].returned
        /\ Len(RidesOf(o)) = 1
        /\ \E e \in EntriesOf(o) :
            LET dest == RecordFor(RidesOf(o)[1], NINETY_SIX_STOP_ID)
            IN  /\ ~e.direct
                /\ Truthy(FirstPresent(dest, DestinationFields))
                /\ DateParse(FirstPresent(dest, DestinationFields)) = InstantOf(e)

-----------------------------------------------------------------------------
(* C7 *)

\* the origin record has a scheduled time and the live time is more than one
\* minute behind it
LateByMoreThanAMinute(ride, originStopId) ==
    LET rec == RecordFor(ride, originStopId)
    IN  /\ Truthy(ScheduledOf(rec))
        /\ DateParse(LiveOf(rec)) - DateParse(ScheduledOf(rec)) > 60000

\* C7: every entry is delayed if and only if its origin record has a
\* scheduled time (first present of scheduledDepartureTime,
\* scheduledArrivalTime, scheduledAt) and the live time (first present of
\* expectedArrivalTime, expectedDepartureTime, else the scheduled time) is
\* more than 1 minute later; exactly 1 minute late, on time, early or
\* without live field it is not delayed.
C7_DelayedIffLateByMoreThanAMinute ==
    \A o \in Origins :
        parsed[o].returned =>
            \A e \in EntriesOf(o) :
                \E i \in SourcesOf(o, e) :
                    e.delayed <=> LateByMoreThanAMinute(RidesOf(o)[i], OriginStopId(o))

\* the only ride of a document is exactly one minute late at the origin
\* stop, and its entry is not delayed
C7_Witness ==
    \E o \in Origins :
        /\ parsed[o].returned
        /\ Len(RidesOf(o)) = 1
        /\ \E e \in EntriesOf(o) :
            LET rec == RecordFor(RidesOf(o)[1], OriginStopId(o))
            IN  /\ ~e.delayed
                /\ Truthy(ScheduledOf(rec))
                /\ InstantOf(e) - DateParse(ScheduledOf(rec)) = 60000

-----------------------------------------------------------------------------
(* C8 *)

\* the colour label of a route: the first of green, red, blue that its name
\* or short name contains, letter case aside; none when it contains neither
LabelOf(info) ==
    IF ContainsIgnoringCase(info.name, GREEN) \/ ContainsIgnoringCase(info.shortName, GREEN)
    THEN <<"G", "r", "e", "e", "n">>
    ELSE IF ContainsIgnoringCase(info.name, RED) \/ ContainsIgnoringCase(info.shortName, RED)
    THEN <<"R", "e", "d">>
    ELSE IF ContainsIgnoringCase(info.name, BLUE) \/ ContainsIgnoringCase(info.shortName, BLUE)
    THEN <<"B", "l", "u", "e">>
    ELSE <<>>

\* the bucket a route's rides belong to, and the colour they are shown in
BucketOfLabel(label) ==
    IF label = <<>> THEN "blue" ELSE KeyOfString(toLowerCase(label))

ColorOfLabel(label) ==
    IF label = <<>> THEN <<"B", "l", "u", "e">> ELSE label

\* a ride that is not walking, not on an excluded route, and has a record at
\* the origin stop with a usable time
Qualifies(o, ride) ==
    /\ Truthy(ride)
    /\ ~SaysWalk(ride)
    /\ ~isManhattanville(ver, resolveRouteInfo(routeInfoById(data[o]), ride))
    /\ HasRecordFor(ride, OriginStopId(o))
    /\ Truthy(LiveOf(RecordFor(ride, OriginStopId(o))))

\* the qualifying rides of o's document that belong to bucket k
QualifyingFor(o, k) ==
    {i \in 1..Len(RidesOf(o)) :
        /\ Qualifies(o, RidesOf(o)[i])
        /\ BucketOfLabel(LabelOf(resolveRouteInfo(routeInfoById(data[o]),
                                                    RidesOf(o)[i]))) = k}

\* C8: every qualifying ride gives exactly one entry, to exactly one bucket:
\* the one named by its route's colour label lower-cased, shown in that
\* label, or, when no colour can be inferred, the blue bucket, shown as
\* "Blue".
C8_OneEntryInTheBucketOfItsColor ==
    \A o \in Origins :
        parsed[o].returned =>
            \A k \in BucketNames :
                /\ Len(buckets[o][k]) = Count(QualifyingFor(o, k))
                /\ \A j \in 1..Len(buckets[o][k]) :
                       \E i \in QualifyingFor(o, k) :
                           LET info == resolveRouteInfo(routeInfoById(data[o]),
                                                        RidesOf(o)[i])
                           IN  /\ buckets[o][k][j].rawISO =
                                      LiveOf(RecordFor(RidesOf(o)[i], OriginStopId(o)))
                               /\ buckets[o][k][j].routeName = info.name
                               /\ buckets[o][k][j].color = ColorOfLabel(LabelOf(info))

-----------------------------------------------------------------------------
(* C9 *)

\* the bucket of colour k of origin o in the served body
ServedBucket(o, k) == response.body[o][k]

\* C9: in the body GET /api/shuttle serves, every entry of every bucket of
\* both origins has a raw timestamp at or after the current instant of the
\* filtering: an entry before now is never served, and an entry of the
\* result that is at or after now is served.
C9_ServedEntriesAreNotBeforeNow ==
    response.status = 200 =>
        \A o \in Origins, k \in BucketNames :
            /\ \A j \in 1..Len(ServedBucket(o, k)) :
                   InstantOf(ServedBucket(o, k)[j]) >= now
            /\ \A j \in 1..Len(ResultBucket(o, k)) :
                   InstantOf(ResultBucket(o, k)[j]) >= now =>
                       CountIn(ServedBucket(o, k), ResultBucket(o, k)[j]) > 0

-----------------------------------------------------------------------------
(* C10 *)

\* C10: parseTripShotCommutePlanForOrigin raises no error for any JSON
\* document; a missing or malformed part only makes it skip that ride or
\* field, and it returns a result with stopName and the three buckets.
C10_ParserRaisesNoError ==
    \A o \in Origins :
        /\ ~parsed[o].threw
        /\ pc = "done" /\ (\A p \in Origins : jsonSt[p] = "parsed") =>
               /\ parsed[o].returned
               /\ DOMAIN parsed[o].result = {"stopName", "green", "red", "blue"}

-----------------------------------------------------------------------------
(* C11 *)

\* an upstream request has failed: an answer with a non-success status, a
\* fault of the network, or a body that is no JSON
UpstreamFailed ==
    \/ \E o \in Origins : fetchSt[o] \in {"notok", "rejected"}
    \/ \E o \in Origins : jsonSt[o] = "rejected"

\* the failure is known to the handler: a rejection ends the join at once, a
\* non-success status is read when both answers are in
FailureJoined ==
    \/ \E o \in Origins : fetchSt[o] = "rejected"
    \/ /\ \E o \in Origins : fetchSt[o] = "notok"
       /\ \A o \in Origins : fetchSt[o] # "pending"
    \/ \E o \in Origins : jsonSt[o] = "rejected"

\* C11 (issue): once the handler awaits, both upstream requests are issued.
C11_BothIssuedBeforeAwaited ==
    pc # "idle" => \A o \in Origins : fetchSt[o] # "none"

\* C11 (join): an origin is normalized only when both answers have arrived
\* with a success status and both bodies are parsed.
C11_NormalizedAfterJoin ==
    (\E o \in Origins : parsed[o] # NoResult) =>
        \A p \in Origins : fetchSt[p] = "ok" /\ jsonSt[p] = "parsed"

\* C11 (no partial result): when an upstream request has failed no body is
\* served and no origin is normalized; the only answer is the 500.
C11_NoPartialResult ==
    UpstreamFailed =>
        /\ response.status \in {0, 500}
        /\ \A o \in Origins : parsed[o] = NoResult

\* C11 (one answer): an answer, once sent, is not followed by another.
C11_AnsweredOnce ==
    [][response # NoResponse => response' = response]_vars

\* C11 (the failure is answered): a failure the handler's join has seen
\* leads to the 500.
C11_FailureLeadsToError ==
    FailureJoined ~> (response.status = 500)

\* C11: GET /api/shuttle issues both upstream requests before it awaits
\* either, normalizes an origin only after both answers have completed and
\* been parsed, and in every interleaving of completions in which an
\* upstream request fails (status, network, JSON) answers with exactly one
\* 500 and never with a body holding the other origin's result.
C11_JoinedFetchesFailAsOne ==
    /\ [](C11_BothIssuedBeforeAwaited /\ C11_NormalizedAfterJoin /\ C11_NoPartialResult)
    /\ C11_AnsweredOnce
    /\ C11_FailureLeadsToError

\* the body of 120 S was no JSON while the body of EC S was parsed: the
\* request is answered with the 500 and EC S is never normalized
C11_Witness ==
    /\ pc = "done"
    /\ jsonSt["ecS"] = "parsed"
    /\ jsonSt["s120"] = "rejected"
    /\ response = ErrorResponse("Shuttle API error")
    /\ parsed["ecS"] = NoResult

-----------------------------------------------------------------------------
(* C12 *)

\* the entries of a bucket that are at or after the instant t, in their order
NotBefore(bucket, t) == SelectSeq(bucket, LAMBDA e : InstantOf(e) >= t)

\* C12: the future-trip filter runs after the cut to three: the bucket the
\* edition with the filter serves is exactly the entries of the three
\* earliest normalized entries that are at or after now, so an entry that is
\* not among the three earliest is never served, even when stale entries
\* among the three are removed and later rides of that colour exist.
C12_ServedIsFutureOfThreeEarliest ==
    (ver = "v15" /\ response.status = 200) =>
        \A o \in Origins, k \in BucketNames :
            /\ ServedBucket(o, k) = NotBefore(ResultBucket(o, k), now)
            /\ \A j \in 1..Len(ServedBucket(o, k)) :
                   CountIn(ResultBucket(o, k), ServedBucket(o, k)[j]) > 0

====
